---- MODULE Spec2Model ----
(***************************************************************************)
(* genstates: a state machine compiled from a schema (Machine.__init__,    *)
(* Machine._populate), resolved one step at a time (Machine.progress,      *)
(* Transition.check_condition) and driven over iterables                   *)
(* (Machine.map_action, Machine.reduce_action, foreach_action).            *)
(*                                                                         *)
(* Python values are modelled as follows.  A str is a string.  An ordered  *)
(* dict is the sequence of its entries in insertion order.  An object is a *)
(* record with an id field (its identity).  A value handled by an action   *)
(* is a sequence of strings: an item of an iterable is <<item>>, and the   *)
(* value returned by a callable is the term <<name, "(", args.., ")">>, so *)
(* that actions are uninterpreted functions.  An exception is the sequence *)
(* <<class name, constructor arguments..>>.                                *)
(***************************************************************************)
EXTENDS Integers, Sequences, FiniteSets, TLC

VARIABLES schema, module, machine,
          op, status, start_state, current_state, checked, initial_value,
          consumed, has_accumulator, accumulator, results, returned, error,
          log, path, call_arguments, failed_before, traversals

vars == <<schema, module, machine, op, status, start_state, current_state,
          checked, initial_value, consumed, has_accumulator, accumulator,
          results, returned, error, log, path, call_arguments, traversals,
          failed_before>>

-----------------------------------------------------------------------------
(* Bounds *)

\* longest iterable handed to map_action / reduce_action / foreach_action
MaxItems == 3

\* most transitions declared by the origin state of the progress schemas
MaxTrn == 2

\* most arguments handed to State.do_action by a direct caller
MaxArgs == 2

\* threads that traverse the same machine at the same time
MaxThreads == 2

\* most items a thread reads from its iterable
MaxReads == 2

-----------------------------------------------------------------------------
(* Python constants *)

None == "None"

\* what dict.get / a missing key is modelled by: the key is not in the mapping
Absent == "<absent>"

NoError == <<>>

NoValue == <<>>

\* the value None, among the values handled by actions
NoneValue == <<"None">>

\* the State that stands for "no state" in the variables before a call
NoState == [id |-> 0, key |-> None, name |-> None, action |-> None]

-----------------------------------------------------------------------------
(* Rule expressions and their compiled predicates (genruler) *)

Tautology == "(boolean.tautology)"

Contradiction == "(boolean.contradiction)"

GreaterThanZero == "(condition.gt (basic.field \"value\") 0)"

LessThanZero == "(condition.lt (basic.field \"value\") 0)"

FieldValue == "(basic.field \"value\")"

Malformed == "(boolean.tautology"

\* contexts: {"value": 1}, {"value": -1}, {}
Contexts == {"pos", "neg", "empty"}

\* the items of the iterables handed to the traversals: contexts too
Items == {"pos", "neg"}

\* genruler.parse(expression): does the expression compile
ParseOK(expression) == expression # Malformed

\* rule(context): what the compiled predicate does on a context:
\* "True" / "False" (the bools), "Truthy" (a value that is not a bool),
\* "Raise" (the predicate raises)
RuleCall(rule, context) ==
  CASE rule = Tautology -> "True"
    [] rule = Contradiction -> "False"
    [] rule = GreaterThanZero ->
         (CASE context = "pos" -> "True"
            [] context = "neg" -> "False"
            [] OTHER -> "Raise")
    [] rule = LessThanZero ->
         (CASE context = "pos" -> "False"
            [] context = "neg" -> "True"
            [] OTHER -> "Raise")
    [] rule = FieldValue ->
         (IF context = "empty" THEN "Raise" ELSE "Truthy")
    [] OTHER -> "Raise"

-----------------------------------------------------------------------------
(* The action namespace (the module argument of Machine) *)

TestModule == "TestModule"

\* the members of the namespace
ModuleMembers(mod) ==
  IF mod = TestModule THEN {"f", "g", "boom", "not_callable"} ELSE {}

\* callable(getattr(module, name))
IsCallable(mod, name) == name \in ModuleMembers(mod) /\ name # "not_callable"

\* action(*arguments) for a bound callable: "boom" raises, every other
\* callable returns the term built from its name and its arguments
RECURSIVE Flatten(_)
Flatten(arguments) ==
  IF arguments = <<>> THEN <<>>
  ELSE Head(arguments) \o (IF Len(arguments) > 1 THEN <<",">> ELSE <<>>)
       \o Flatten(Tail(arguments))

ActionCall(action, arguments) ==
  IF action = "boom"
  THEN [raised |-> TRUE, value |-> NoValue, error |-> <<"RuntimeError", "boom">>]
  ELSE [raised |-> FALSE,
        value |-> <<action, "(">> \o Flatten(arguments) \o <<")">>,
        error |-> NoError]

-----------------------------------------------------------------------------
(* Ordered dicts *)

\* key in dict
HasKey(dict, key) == \E i \in 1..Len(dict) : dict[i].k = key

\* dict[key], for a key the dict holds
Lookup(dict, key) == dict[CHOOSE i \in 1..Len(dict) : dict[i].k = key].v

\* dict[key] = value: in place when the key is there, else appended
DictSet(dict, key, value) ==
  IF HasKey(dict, key)
  THEN [i \in 1..Len(dict) |->
          IF dict[i].k = key THEN [k |-> key, v |-> value] ELSE dict[i]]
  ELSE Append(dict, [k |-> key, v |-> value])

\* list membership
InList(x, list) == \E i \in 1..Len(list) : list[i] = x

-----------------------------------------------------------------------------
(* Machine._populate and Machine.__init__ *)

\* definition.get(key, default): the value, or the default for a missing key
Get(value, default) == IF value = Absent THEN default ELSE value

\* a mutant of populate_transitions: a transition without a rule gets the
\* rule that is never true
RECURSIVE populate_transitions_default_false(_, _, _, _, _)
populate_transitions_default_false(state, transitions, j, destinations, out) ==
  IF out.error # NoError \/ j > Len(transitions) THEN out
  ELSE LET trn_key == transitions[j].k
           trn_definition == transitions[j].v
           destination == trn_definition.destination
           rule == Get(trn_definition.rule, Contradiction)
       IN IF InList(destination, destinations)
          THEN [out EXCEPT !.error =
                  <<"DuplicateDestinationError", state.key, destination>>]
          ELSE IF ~ParseOK(rule)
          THEN [out EXCEPT !.error = <<"ParseError", rule>>]
          ELSE populate_transitions_default_false(
                 state, transitions, j + 1, Append(destinations, destination),
                 [out EXCEPT !.transitions =
                    DictSet(@, <<state.key, trn_key>>,
                            [key |-> trn_key,
                             name |-> Get(trn_definition.name, trn_key),
                             origin |-> state,
                             destination |-> destination,
                             rule |-> rule])])

\* a mutant of populate_transitions: no duplicate-destination check
RECURSIVE populate_transitions_unchecked(_, _, _, _, _)
populate_transitions_unchecked(state, transitions, j, destinations, out) ==
  IF out.error # NoError \/ j > Len(transitions) THEN out
  ELSE LET trn_key == transitions[j].k
           trn_definition == transitions[j].v
           destination == trn_definition.destination
           rule == Get(trn_definition.rule, Tautology)
       IN IF ~ParseOK(rule)
          THEN [out EXCEPT !.error = <<"ParseError", rule>>]
          ELSE populate_transitions_unchecked(
                 state, transitions, j + 1, Append(destinations, destination),
                 [out EXCEPT !.transitions =
                    DictSet(@, <<state.key, trn_key>>,
                            [key |-> trn_key,
                             name |-> Get(trn_definition.name, trn_key),
                             origin |-> state,
                             destination |-> destination,
                             rule |-> rule])])

\* the loop over one state's transitions: the duplicate-destination check
\* and the raw transition stored under (state_key, trn_key)
RECURSIVE populate_transitions(_, _, _, _, _)
populate_transitions(state, transitions, j, destinations, out) ==
  IF out.error # NoError \/ j > Len(transitions) THEN out
  ELSE LET trn_key == transitions[j].k
           trn_definition == transitions[j].v
           destination == trn_definition.destination
           rule == Get(trn_definition.rule, Tautology)
       IN IF InList(destination, destinations)
          THEN [out EXCEPT !.error =
                  <<"DuplicateDestinationError", state.key, destination>>]
          ELSE IF ~ParseOK(rule)
          THEN [out EXCEPT !.error = <<"ParseError", rule>>]
          ELSE populate_transitions(
                 state, transitions, j + 1, Append(destinations, destination),
                 [out EXCEPT !.transitions =
                    DictSet(@, <<state.key, trn_key>>,
                            [key |-> trn_key,
                             name |-> Get(trn_definition.name, trn_key),
                             origin |-> state,
                             destination |-> destination,
                             rule |-> rule])])

\* the first pass: one State per declared state, then its transitions
\* (a definition without a "transitions" key has transitions = <<>>, which
\* is what .get("transitions", {}) gives)
RECURSIVE populate_states(_, _, _, _)
populate_states(states, mod, i, out) ==
  IF out.error # NoError \/ i > Len(states) THEN out
  ELSE LET state_key == states[i].k
           definition == states[i].v
           named == mod # None /\ definition.action \notin {Absent, None}
       IN IF named /\ definition.action \notin ModuleMembers(mod)
          THEN [out EXCEPT !.error = <<"AttributeError", definition.action>>]
          ELSE IF named /\ ~IsCallable(mod, definition.action)
          THEN [out EXCEPT !.error = <<"NonCallableActionError", state_key>>]
          ELSE LET state == [id |-> i,
                             key |-> state_key,
                             name |-> Get(definition.name, state_key),
                             action |-> IF named THEN definition.action ELSE None]
               IN populate_states(
                    states, mod, i + 1,
                    populate_transitions(
                      state, definition.transitions, 1, <<>>,
                      [out EXCEPT !.states = DictSet(@, state_key, state)]))

\* a mutant of _populate: one pass, so a destination resolves only to a
\* State that was built before the transition was read
_populate_single_pass(states, mod) ==
  LET first == populate_states(states, mod, 1,
                 [error |-> NoError, states |-> <<>>, transitions |-> <<>>])
      dangling == {j \in 1..Len(first.transitions) :
                     \/ ~HasKey(first.states, first.transitions[j].v.destination)
                     \/ Lookup(first.states,
                               first.transitions[j].v.destination).id >
                          first.transitions[j].v.origin.id}
  IN IF first.error # NoError
     THEN [error |-> first.error, states |-> <<>>, transitions |-> <<>>]
     ELSE IF dangling # {}
     THEN [error |-> <<"MissingDestinationStateError",
                       first.transitions[
                         CHOOSE j \in dangling : \A h \in dangling : j <= h
                       ].v.destination>>,
           states |-> <<>>, transitions |-> <<>>]
     ELSE [error |-> NoError,
           states |-> first.states,
           transitions |->
             [j \in 1..Len(first.transitions) |->
                [k |-> first.transitions[j].k,
                 v |-> [first.transitions[j].v EXCEPT !.destination =
                          Lookup(first.states, @)]]]]

\* a mutant of _populate: the error names the last dangling destination
_populate_last_dangling(states, mod) ==
  LET first == populate_states(states, mod, 1,
                 [error |-> NoError, states |-> <<>>, transitions |-> <<>>])
      dangling == {j \in 1..Len(first.transitions) :
                     ~HasKey(first.states, first.transitions[j].v.destination)}
  IN IF first.error # NoError
     THEN [error |-> first.error, states |-> <<>>, transitions |-> <<>>]
     ELSE IF dangling # {}
     THEN [error |-> <<"MissingDestinationStateError",
                       first.transitions[
                         CHOOSE j \in dangling : \A h \in dangling : j >= h
                       ].v.destination>>,
           states |-> <<>>, transitions |-> <<>>]
     ELSE [error |-> NoError,
           states |-> first.states,
           transitions |->
             [j \in 1..Len(first.transitions) |->
                [k |-> first.transitions[j].k,
                 v |-> [first.transitions[j].v EXCEPT !.destination =
                          Lookup(first.states, @)]]]]

\* a mutant of _populate: a transition gets a copy of its destination State
_populate_copies(states, mod) ==
  LET first == populate_states(states, mod, 1,
                 [error |-> NoError, states |-> <<>>, transitions |-> <<>>])
      dangling == {j \in 1..Len(first.transitions) :
                     ~HasKey(first.states, first.transitions[j].v.destination)}
  IN IF first.error # NoError
     THEN [error |-> first.error, states |-> <<>>, transitions |-> <<>>]
     ELSE IF dangling # {}
     THEN [error |-> <<"MissingDestinationStateError",
                       first.transitions[
                         CHOOSE j \in dangling : \A h \in dangling : j <= h
                       ].v.destination>>,
           states |-> <<>>, transitions |-> <<>>]
     ELSE [error |-> NoError,
           states |-> first.states,
           transitions |->
             [j \in 1..Len(first.transitions) |->
                [k |-> first.transitions[j].k,
                 v |-> [first.transitions[j].v EXCEPT !.destination =
                          [Lookup(first.states, @) EXCEPT
                             !.id = @ + Len(first.states)]]]]]

\* Machine._populate: both passes; the second resolves every raw destination
\* key to the State built by the first, in insertion order
_populate(states, mod) ==
  LET first == populate_states(states, mod, 1,
                 [error |-> NoError, states |-> <<>>, transitions |-> <<>>])
      dangling == {j \in 1..Len(first.transitions) :
                     ~HasKey(first.states, first.transitions[j].v.destination)}
  IN IF first.error # NoError
     THEN [error |-> first.error, states |-> <<>>, transitions |-> <<>>]
     ELSE IF dangling # {}
     THEN [error |-> <<"MissingDestinationStateError",
                       first.transitions[
                         CHOOSE j \in dangling : \A h \in dangling : j <= h
                       ].v.destination>>,
           states |-> <<>>, transitions |-> <<>>]
     ELSE [error |-> NoError,
           states |-> first.states,
           transitions |->
             [j \in 1..Len(first.transitions) |->
                [k |-> first.transitions[j].k,
                 v |-> [first.transitions[j].v EXCEPT !.destination =
                          Lookup(first.states, @)]]]]

\* a mutant of Machine: the initial state is checked against the schema
\* before the states are populated
Machine_initial_first(sch, mod) ==
  LET populated == _populate(sch.states, mod)
      failed(e) == [error |-> e, initial |-> NoState,
                    states |-> <<>>, transitions |-> <<>>]
  IN IF sch.initial_state = Absent
     THEN failed(<<"MissingInitialStateError">>)
     ELSE IF ~HasKey(sch.states, sch.initial_state)
     THEN failed(<<"InvalidInitialStateError", sch.initial_state>>)
     ELSE IF populated.error # NoError THEN failed(populated.error)
     ELSE [error |-> NoError,
           initial |-> Lookup(populated.states, sch.initial_state),
           states |-> populated.states,
           transitions |-> populated.transitions]

\* a mutant of Machine: the initial state key is read with .get(), so a
\* missing key is looked up as None
Machine_get_initial(sch, mod) ==
  LET populated == _populate(sch.states, mod)
      failed(e) == [error |-> e, initial |-> NoState,
                    states |-> <<>>, transitions |-> <<>>]
      initial_state_key == Get(sch.initial_state, None)
  IN IF populated.error # NoError THEN failed(populated.error)
     ELSE IF ~HasKey(populated.states, initial_state_key)
     THEN failed(<<"InvalidInitialStateError", initial_state_key>>)
     ELSE [error |-> NoError,
           initial |-> Lookup(populated.states, initial_state_key),
           states |-> populated.states,
           transitions |-> populated.transitions]

\* Machine.__init__: the machine, or the error construction raised
Machine(sch, mod) ==
  LET populated == _populate(sch.states, mod)
      failed(e) == [error |-> e, initial |-> NoState,
                    states |-> <<>>, transitions |-> <<>>]
  IN IF populated.error # NoError THEN failed(populated.error)
     ELSE IF sch.initial_state = Absent
     THEN failed(<<"MissingInitialStateError">>)
     ELSE IF ~HasKey(populated.states, sch.initial_state)
     THEN failed(<<"InvalidInitialStateError", sch.initial_state>>)
     ELSE [error |-> NoError,
           initial |-> Lookup(populated.states, sch.initial_state),
           states |-> populated.states,
           transitions |-> populated.transitions]

-----------------------------------------------------------------------------
(* Transition.check_condition, Machine.get_transitions, Machine.progress *)

\* one entry of the call log: a progress call, a rule evaluation or an
\* action invocation
Event(call, state_key, transition_key, arguments) ==
  [call |-> call, state |-> state_key, transition |-> transition_key,
   arguments |-> arguments]

\* the calls of several steps, one after the other
RECURSIVE Concat(_)
Concat(seqs) == IF seqs = <<>> THEN <<>> ELSE Head(seqs) \o Concat(Tail(seqs))

\* a mutant of check_condition: the result of the rule is negated
check_condition_negated(transition, context) ==
  LET outcome == RuleCall(transition.rule, context)
  IN [raised |-> FALSE,
      value |-> IF outcome = "True" THEN "False" ELSE "True",
      error |-> NoError,
      calls |-> <<Event("rule", transition.origin.key, transition.key,
                        <<<<context>>>>)>>]

\* a mutant of check_condition: no try/except around the rule
check_condition_no_except(transition, context) ==
  LET outcome == RuleCall(transition.rule, context)
  IN [raised |-> outcome = "Raise",
      value |-> outcome,
      error |-> IF outcome = "Raise" THEN <<"KeyError", "value">> ELSE NoError,
      calls |-> <<Event("rule", transition.origin.key, transition.key,
                        <<<<context>>>>)>>]

\* Transition.check_condition: the rule's value, False when the rule raises;
\* the rule is the one predicate it evaluates
check_condition(transition, context) ==
  LET outcome == RuleCall(transition.rule, context)
  IN [raised |-> FALSE,
      value |-> IF outcome = "Raise" THEN "False" ELSE outcome,
      error |-> NoError,
      calls |-> <<Event("rule", transition.origin.key, transition.key,
                        <<<<context>>>>)>>]

\* Machine.get_transitions: the transitions whose origin key is state.key,
\* in the insertion order of machine.transitions, keyed by transition key
\* a mutant of get_transitions: the transitions that arrive at the state
get_transitions_arriving(m, state) ==
  LET ToState(entry) == entry.v.destination.key = state.key
      own == SelectSeq(m.transitions, ToState)
  IN [i \in 1..Len(own) |-> [k |-> own[i].k[2], v |-> own[i].v]]

get_transitions(m, state) ==
  LET FromState(entry) == entry.k[1] = state.key
      own == SelectSeq(m.transitions, FromState)
  IN [i \in 1..Len(own) |-> [k |-> own[i].k[2], v |-> own[i].v]]

\* the generator inside Machine.progress: (check_condition, destination) for
\* every transition of the state, in order
progress_checks(m, state, context) ==
  LET transitions == get_transitions(m, state)
  IN [i \in 1..Len(transitions) |->
        [check |-> check_condition(transitions[i].v, context),
         state |-> transitions[i].v.destination]]

\* a mutant of progress_result: the "if result is True" filter is left out
progress_result_unfiltered(m, state, context) ==
  LET pairs == progress_checks(m, state, context)
  IN [i \in 1..Len(pairs) |-> pairs[i].state]

\* the list Machine.progress builds: the destinations of the transitions
\* whose check_condition is True, in order
progress_result(m, state, context) ==
  LET IsTrue(pair) == pair.check.value = "True"
      Destinations(matches) == [i \in 1..Len(matches) |-> matches[i].state]
  IN Destinations(SelectSeq(progress_checks(m, state, context), IsTrue))

\* the calls Machine.progress makes: check_condition on every transition of
\* the state (an exception raised by one would end the scan)
progress_calls(m, state, context) ==
  LET Failing(pairs) == {i \in 1..Len(pairs) : pairs[i].check.raised}
      Scan(pairs, last) ==
        [failed |-> last <= Len(pairs),
         error |-> IF last > Len(pairs) THEN NoError
                   ELSE pairs[last].check.error,
         calls |-> <<Event("progress", state.key, "", <<<<context>>>>)>> \o
                   Concat([i \in 1..(IF last > Len(pairs) THEN Len(pairs)
                                     ELSE last) |-> pairs[i].check.calls])]
      Upto(pairs, failing) ==
        Scan(pairs, IF failing = {} THEN Len(pairs) + 1
                    ELSE CHOOSE i \in failing : \A h \in failing : i <= h)
      Over(pairs) == Upto(pairs, Failing(pairs))
  IN Over(progress_checks(m, state, context))

\* a call that raised / a call that returned a State
Raises(err, calls) ==
  [raised |-> TRUE, value |-> NoState, calls |-> calls, error |-> err]

Returns(state, calls) ==
  [raised |-> FALSE, value |-> state, calls |-> calls, error |-> NoError]

\* a mutant of progress: with no match the machine stays in its state
progress_stays(m, state, context) ==
  LET scan == progress_calls(m, state, context)
      result == progress_result(m, state, context)
  IN IF scan.failed THEN Raises(scan.error, scan.calls)
     ELSE IF Len(result) = 0 THEN Returns(state, scan.calls)
     ELSE IF Len(result) > 1
     THEN Raises(<<"DuplicateTransitionError", state.key, result[1].key>>,
                 scan.calls)
     ELSE Returns(result[1], scan.calls)

\* a mutant of progress: the duplicate error names the last match
progress_names_last(m, state, context) ==
  LET scan == progress_calls(m, state, context)
      result == progress_result(m, state, context)
  IN IF scan.failed THEN Raises(scan.error, scan.calls)
     ELSE IF Len(result) = 0
     THEN Raises(<<"MissingTransitionError", state.key, "*">>, scan.calls)
     ELSE IF Len(result) > 1
     THEN Raises(<<"DuplicateTransitionError", state.key,
                   result[Len(result)].key>>, scan.calls)
     ELSE Returns(result[1], scan.calls)

\* Machine.progress: exactly one match is returned; none raises
\* MissingTransitionError(state.key, "*"), several raise
\* DuplicateTransitionError(state.key, result[0].key)
progress(m, state, context) ==
  LET Outcome(scan, result) ==
        IF scan.failed THEN Raises(scan.error, scan.calls)
        ELSE IF Len(result) = 0
        THEN Raises(<<"MissingTransitionError", state.key, "*">>, scan.calls)
        ELSE IF Len(result) > 1
        THEN Raises(<<"DuplicateTransitionError", state.key, result[1].key>>,
                    scan.calls)
        ELSE Returns(result[1], scan.calls)
  IN Outcome(progress_calls(m, state, context),
             progress_result(m, state, context))

-----------------------------------------------------------------------------
(* State.do_action and the bodies of the traversal loops *)

\* a mutant of do_action: the state is handed to the action before the
\* arguments
do_action_leading_state(state, arguments) ==
  IF state.action = None
  THEN [raised |-> TRUE, value |-> NoValue, calls |-> <<>>,
        error |-> <<"TypeError", "'NoneType' object is not callable">>]
  ELSE LET call == ActionCall(state.action,
                              <<<<"State", state.key>>>> \o arguments)
       IN [raised |-> call.raised, value |-> call.value, error |-> call.error,
           calls |-> <<Event("action", state.key, "",
                             <<<<"State", state.key>>>> \o arguments)>>]

\* State.do_action: self.action(*arguments); calling None is a TypeError
do_action(state, arguments) ==
  IF state.action = None
  THEN [raised |-> TRUE, value |-> NoValue, calls |-> <<>>,
        error |-> <<"TypeError", "'NoneType' object is not callable">>]
  ELSE LET call == ActionCall(state.action, arguments)
       IN [raised |-> call.raised, value |-> call.value, error |-> call.error,
           calls |-> <<Event("action", state.key, "", arguments)>>]

\* what one pass through a loop body gives: did it raise, did progress
\* return (advanced), the loop's current_state, the value, the calls made
StepResult(raised, advanced, state, value, err, calls) ==
  [raised |-> raised, advanced |-> advanced, state |-> state, value |-> value,
   error |-> err, calls |-> calls]

\* a mutant of map_action_step: the action invoked is that of the state
\* being left
map_action_step_leaving(m, current, item) ==
  LET next == progress(m, current, item)
      done == do_action(current, <<<<item>>>>)
  IN IF next.raised
     THEN StepResult(TRUE, FALSE, current, NoValue, next.error, next.calls)
     ELSE StepResult(done.raised, TRUE, next.value, done.value, done.error,
                     next.calls \o done.calls)

\* a mutant of map_action_step: the action is invoked before progress, on
\* the state the generator is in
map_action_step_acts_first(m, current, item) ==
  LET done == do_action(current, <<<<item>>>>)
      next == progress(m, current, item)
  IN IF done.raised
     THEN StepResult(TRUE, FALSE, current, NoValue, done.error, done.calls)
     ELSE StepResult(next.raised, ~next.raised,
                     IF next.raised THEN current ELSE next.value,
                     done.value, next.error, done.calls \o next.calls)

\* the body of map_action's loop for one item
\* a mutant of map_action_step: after the action the rules of the state
\* arrived at are already evaluated, ahead of the next request
map_action_step_ahead(m, current, item) ==
  LET Yield(next, done) ==
        StepResult(done.raised, TRUE, next.value, done.value, done.error,
                   next.calls \o done.calls \o
                   progress_calls(m, next.value, item).calls)
      Body(next) ==
        IF next.raised
        THEN StepResult(TRUE, FALSE, current, NoValue, next.error, next.calls)
        ELSE Yield(next, do_action(next.value, <<<<item>>>>))
  IN Body(progress(m, current, item))

map_action_step(m, current, item) ==
  LET Yield(next, done) ==
        StepResult(done.raised, TRUE, next.value, done.value, done.error,
                   next.calls \o done.calls)
      Body(next) ==
        IF next.raised
        THEN StepResult(TRUE, FALSE, current, NoValue, next.error, next.calls)
        ELSE Yield(next, do_action(next.value, <<<<item>>>>))
  IN Body(progress(m, current, item))

\* a mutant of reduce_function: the action gets (incoming, current)
reduce_function_swapped(m, current_st, current, incoming) ==
  LET next == progress(m, current_st, incoming)
      done == do_action(next.value, <<<<incoming>>, current>>)
  IN IF next.raised
     THEN StepResult(TRUE, FALSE, current_st, NoValue, next.error, next.calls)
     ELSE StepResult(done.raised, TRUE, next.value, done.value, done.error,
                     next.calls \o done.calls)

\* reduce_function(current, incoming), the closure of reduce_action
reduce_function(m, current_st, current, incoming) ==
  LET Fold(next, done) ==
        StepResult(done.raised, TRUE, next.value, done.value, done.error,
                   next.calls \o done.calls)
      Body(next) ==
        IF next.raised
        THEN StepResult(TRUE, FALSE, current_st, NoValue, next.error,
                        next.calls)
        ELSE Fold(next, do_action(next.value, <<current, <<incoming>>>>))
  IN Body(progress(m, current_st, incoming))

\* list(map_action(state, items)): the generator drained over the items; it
\* stops at the first item whose step raises
\* functools.reduce(reduce_function, items, value), the nonlocal
\* current_state of reduce_function carried along
RECURSIVE reduce(_, _, _, _, _)
reduce(m, state, value, items, calls) ==
  IF items = <<>>
  THEN [raised |-> FALSE, error |-> NoError, value |-> value,
        calls |-> calls, state |-> state]
  ELSE LET Go(step) ==
             IF step.raised
             THEN [raised |-> TRUE, error |-> step.error, value |-> NoValue,
                   calls |-> calls \o step.calls, state |-> step.state]
             ELSE reduce(m, step.state, step.value, Tail(items),
                         calls \o step.calls)
       IN Go(reduce_function(m, state, value, Head(items)))

\* Machine.reduce_action run to its end over the items of an iterable;
\* supplied is what the caller passes after the iterable, <<>> or
\* <<initial_value>>
reduce_action(m, state, iterable, supplied) ==
  LET initial == IF supplied = <<>> THEN NoneValue ELSE supplied[1]
  IN IF initial # NoneValue
     THEN reduce(m, state, initial, iterable, <<>>)
     ELSE IF iterable = <<>>
     THEN [raised |-> TRUE, value |-> NoValue, calls |-> <<>>,
           state |-> state,
           error |-> <<"TypeError",
                       "reduce() of empty iterable with no initial value">>]
     ELSE reduce(m, state, <<Head(iterable)>>, Tail(iterable), <<>>)

RECURSIVE map_action_drain(_, _, _)
map_action_drain(m, state, items) ==
  IF items = <<>>
  THEN [raised |-> FALSE, error |-> NoError, results |-> <<>>,
        calls |-> <<>>, state |-> state]
  ELSE LET step == map_action_step(m, state, Head(items))
           rest == map_action_drain(m, step.state, Tail(items))
       IN IF step.raised
          THEN [raised |-> TRUE, error |-> step.error, results |-> <<>>,
                calls |-> step.calls, state |-> step.state]
          ELSE [raised |-> rest.raised, error |-> rest.error,
                results |-> <<step.value>> \o rest.results,
                calls |-> step.calls \o rest.calls, state |-> rest.state]

\* forEach for one item: resolve the next state, invoke its action on the
\* item, discard the result
foreach_action_step(m, current, item) ==
  LET Discard(next, done) ==
        StepResult(done.raised, TRUE, next.value, NoValue, done.error,
                   next.calls \o done.calls)
      Body(next) ==
        IF next.raised
        THEN StepResult(TRUE, FALSE, current, NoValue, next.error, next.calls)
        ELSE Discard(next, do_action(next.value, <<<<item>>>>))
  IN Body(progress(m, current, item))

\* "\n".join(lines)
RECURSIVE Join(_)
Join(lines) ==
  IF lines = <<>> THEN <<>>
  ELSE IF Len(lines) = 1 THEN Head(lines)
  ELSE Head(lines) \o <<"\n">> \o Join(Tail(lines))

\* a mutant of graph: the edge lines come before the node lines
graph_edges_first(m) ==
  LET nodes == [i \in 1..Len(m.states) |->
                  <<"    \"", m.states[i].v.key, "\" [label=\"",
                    m.states[i].v.key, "\"]">>]
      edges == [j \in 1..Len(m.transitions) |->
                  <<"    \"", m.transitions[j].v.origin.key, "\" -> \"",
                    m.transitions[j].v.destination.key, "\" [label=\"",
                    m.transitions[j].v.key, "\"]">>]
  IN <<"digraph {\n">> \o Join(edges \o nodes) \o <<"\n}">>

\* Machine.graph: the DOT text, as the sequence of the pieces the f-strings
\* put together: one node line per state, then one edge line per transition
graph(m) ==
  LET nodes == [i \in 1..Len(m.states) |->
                  <<"    \"", m.states[i].v.key, "\" [label=\"",
                    m.states[i].v.key, "\"]">>]
      edges == [j \in 1..Len(m.transitions) |->
                  <<"    \"", m.transitions[j].v.origin.key, "\" -> \"",
                    m.transitions[j].v.destination.key, "\" [label=\"",
                    m.transitions[j].v.key, "\"]">>]
  IN <<"digraph {\n">> \o Join(nodes \o edges) \o <<"\n}">>

-----------------------------------------------------------------------------
(* Schemas *)

NoValidation == [rule |-> Absent, message |-> Absent]

PositiveValidation ==
  [rule |-> GreaterThanZero, message |-> "Value must be positive"]

\* one entry of a "transitions" mapping
TransitionEntry(key, destination, rule, validation) ==
  [k |-> key,
   v |-> [name |-> Absent, destination |-> destination, rule |-> rule,
          validation |-> validation]]

\* one entry of the "states" mapping
StateEntry(key, action, transitions) ==
  [k |-> key,
   v |-> [name |-> Absent, action |-> action, transitions |-> transitions]]

\* the schemas of the traversals: three states, each with one of these
\* transition lists
TransitionMenu ==
  { <<>>,
    <<TransitionEntry("next", "s2", Tautology, NoValidation)>>,
    <<TransitionEntry("hi", "s3", GreaterThanZero, NoValidation),
      TransitionEntry("lo", "s2", LessThanZero, NoValidation)>>,
    <<TransitionEntry("b", "s1", Absent, NoValidation),
      TransitionEntry("a", "s3", GreaterThanZero, NoValidation)>> }

ActionMenu == { <<"f", "g", Absent>>, <<None, "boom", "f">> }

TraversalSchemas ==
  { [initial_state |-> "s1",
     states |-> <<StateEntry("s1", a[1], t1), StateEntry("s2", a[2], t2),
                  StateEntry("s3", a[3], t3)>>] :
      a \in ActionMenu, t1 \in TransitionMenu, t2 \in TransitionMenu,
      t3 \in TransitionMenu }

\* the schemas of progress: the origin s1 declares up to MaxTrn transitions,
\* the i-th under key TransitionKeys[i] to DestinationKeys[i], each with any
\* rule (or none) and with or without a validation
TransitionKeys == <<"t2", "t1", "t3", "t4">>

DestinationKeys == <<"s3", "s2", "s1", "s4">>

RuleChoices == {Tautology, Contradiction, GreaterThanZero, FieldValue, Absent}

ValidationChoices == {NoValidation, PositiveValidation}

OriginTransitions ==
  UNION { { [i \in 1..n |->
               TransitionEntry(TransitionKeys[i], DestinationKeys[i],
                               r[i], d[i])] :
              r \in [1..n -> RuleChoices], d \in [1..n -> ValidationChoices] } :
          n \in 0..MaxTrn }

ProgressSchemas ==
  { [initial_state |-> "s1",
     states |-> <<StateEntry("s1", Absent, t),
                  StateEntry("s2", None, <<>>),
                  StateEntry("s3", Absent,
                    <<TransitionEntry("back", "s1", Tautology, NoValidation)>>),
                  StateEntry("s4", Absent, <<>>)>>] :
      t \in OriginTransitions }

\* the schemas of construction: two states s1, s2, each with any of the
\* action entries and any of these transition lists (destinations declared,
\* repeated, undeclared; a rule that does not parse), and any initial_state
ConstructTransitionMenu ==
  { <<>>,
    <<TransitionEntry("t1", "s2", Absent, NoValidation)>>,
    <<TransitionEntry("t1", "s2", Tautology, NoValidation),
      TransitionEntry("t2", "s1", Absent, NoValidation)>>,
    <<TransitionEntry("t1", "s2", Tautology, NoValidation),
      TransitionEntry("t2", "s2", Contradiction, NoValidation)>>,
    <<TransitionEntry("t1", "ghost2", Tautology, NoValidation),
      TransitionEntry("t2", "ghost", Tautology, NoValidation)>>,
    <<TransitionEntry("t1", "ghost", Tautology, NoValidation),
      TransitionEntry("t2", "ghost", Tautology, NoValidation)>>,
    <<TransitionEntry("t1", "s1", Malformed, NoValidation)>>,
    <<TransitionEntry("t1", "s2", Malformed, NoValidation),
      TransitionEntry("t2", "s2", Tautology, NoValidation)>> }

ActionChoices == {Absent, None, "f", "not_callable", "missing"}

InitialStateChoices == {Absent, "s1", "s2", "ghost"}

ConstructSchemas ==
  { [initial_state |-> initial,
     states |-> <<StateEntry("s1", a1, t1), StateEntry("s2", a2, t2)>>] :
      initial \in InitialStateChoices,
      a1 \in ActionChoices, a2 \in ActionChoices,
      t1 \in ConstructTransitionMenu, t2 \in ConstructTransitionMenu }

\* the State objects of a constructed machine
States(m) == { m.states[i].v : i \in 1..Len(m.states) }

InitialValues == {NoneValue, <<"seed">>}

\* what a caller passes to reduce_action after the iterable: nothing, or
\* an initial value
InitialArguments == {<<>>} \cup { <<value>> : value \in InitialValues }

-----------------------------------------------------------------------------
(* The state machine: a constructed Machine and the call in flight on it *)

\* the threads that run a traversal each over the one machine
Threads == 1..MaxThreads

\* the frame of a traversal a thread has not called yet
NotStarted ==
  [op |-> "none", status |-> "idle", supplied |-> <<>>,
   start_state |-> NoState, current_state |-> NoState, consumed |-> <<>>,
   has_accumulator |-> FALSE, accumulator |-> NoValue, results |-> <<>>,
   returned |-> NoValue, error |-> NoError, log |-> <<>>]

NoCall ==
  /\ op = "none"
  /\ status = "idle"
  /\ start_state = NoState
  /\ current_state = NoState
  /\ checked = ""
  /\ initial_value = NoneValue
  /\ consumed = <<>>
  /\ has_accumulator = FALSE
  /\ accumulator = NoValue
  /\ results = <<>>
  /\ returned = [state |-> NoState, value |-> NoValue]
  /\ error = NoError
  /\ log = <<>>
  /\ path = <<>>
  /\ call_arguments = <<>>
  /\ failed_before = FALSE
  /\ traversals = [t \in Threads |-> NotStarted]

Init ==
  /\ schema \in TraversalSchemas
  /\ module = TestModule
  /\ machine = Machine(schema, module)
  /\ NoCall

InitProgress ==
  /\ schema \in ProgressSchemas
  /\ module = None
  /\ machine = Machine(schema, module)
  /\ NoCall

\* machine.progress(state, context), called directly (by a caller that is
\* not inside reduce_action or foreach_action, which run to their end)
CallProgress(state, context) ==
  /\ machine.error = NoError
  /\ status # "running"
  /\ LET Ended(next) ==
           /\ op' = "progress"
           /\ status' = IF next.raised THEN "raised" ELSE "returned"
           /\ start_state' = state
           /\ current_state' = state
           /\ consumed' = <<context>>
           /\ returned' = [state |-> next.value, value |-> NoValue]
           /\ error' = next.error
           /\ log' = next.calls
           /\ path' = IF next.raised THEN <<state>> ELSE <<state, next.value>>
     IN Ended(progress(machine, state, context))
  /\ checked' = ""
  /\ initial_value' = NoneValue
  /\ has_accumulator' = FALSE
  /\ accumulator' = NoValue
  /\ results' = <<>>
  /\ call_arguments' = <<>>
  /\ failed_before' = (failed_before \/ status = "raised")
  /\ UNCHANGED <<schema, module, machine, traversals>>

\* transition.check_condition(context), called directly on a transition of
\* the machine
CallCheckCondition(transition, context) ==
  /\ machine.error = NoError
  /\ status # "running"
  /\ LET check == check_condition(transition, context)
     IN /\ op' = "check_condition"
        /\ status' = IF check.raised THEN "raised" ELSE "returned"
        /\ returned' = [state |-> NoState,
                        value |-> IF check.raised THEN NoValue
                                  ELSE <<check.value>>]
        /\ error' = check.error
        /\ log' = check.calls
  /\ start_state' = transition.origin
  /\ current_state' = transition.origin
  /\ checked' = transition.key
  /\ consumed' = <<context>>
  /\ path' = <<>>
  /\ initial_value' = NoneValue
  /\ has_accumulator' = FALSE
  /\ accumulator' = NoValue
  /\ results' = <<>>
  /\ call_arguments' = <<>>
  /\ failed_before' = (failed_before \/ status = "raised")
  /\ UNCHANGED <<schema, module, machine, traversals>>

\* the values a direct caller hands to do_action
ArgumentValues == {<<"x">>, <<"y">>}

ArgumentLists ==
  UNION { [1..n -> ArgumentValues] : n \in 0..MaxArgs }

\* state.do_action(*args), called directly
CallDoAction(state, args) ==
  /\ machine.error = NoError
  /\ status # "running"
  /\ LET Ended(done) ==
           /\ status' = IF done.raised THEN "raised" ELSE "returned"
           /\ returned' = [state |-> NoState, value |-> done.value]
           /\ error' = done.error
           /\ log' = done.calls
     IN Ended(do_action(state, args))
  /\ op' = "do_action"
  /\ start_state' = state
  /\ current_state' = state
  /\ call_arguments' = args
  /\ consumed' = <<>>
  /\ path' = <<>>
  /\ checked' = ""
  /\ initial_value' = NoneValue
  /\ has_accumulator' = FALSE
  /\ accumulator' = NoValue
  /\ results' = <<>>
  /\ failed_before' = (failed_before \/ status = "raised")
  /\ UNCHANGED <<schema, module, machine, traversals>>

\* machine.graph()
CallGraph ==
  /\ machine.error = NoError
  /\ status # "running"
  /\ op' = "graph"
  /\ status' = "returned"
  /\ returned' = [state |-> NoState, value |-> graph(machine)]
  /\ error' = NoError
  /\ log' = <<>>
  /\ start_state' = NoState
  /\ current_state' = NoState
  /\ call_arguments' = <<>>
  /\ consumed' = <<>>
  /\ path' = <<>>
  /\ checked' = ""
  /\ initial_value' = NoneValue
  /\ has_accumulator' = FALSE
  /\ accumulator' = NoValue
  /\ results' = <<>>
  /\ failed_before' = (failed_before \/ status = "raised")
  /\ UNCHANGED <<schema, module, machine, traversals>>

\* a traversal is entered: nothing of its loop has run yet
Enter(name, state, first_status, arguments) ==
  /\ machine.error = NoError
  /\ status # "running"
  /\ op' = name
  /\ status' = first_status
  /\ start_state' = state
  /\ current_state' = state
  /\ consumed' = <<>>
  /\ results' = <<>>
  /\ returned' = [state |-> NoState, value |-> NoValue]
  /\ error' = NoError
  /\ log' = <<>>
  /\ path' = <<state>>
  /\ checked' = ""
  /\ call_arguments' = arguments
  /\ failed_before' = (failed_before \/ status = "raised")
  /\ UNCHANGED <<schema, module, machine, traversals>>

\* a mutant of Pass: a failing step is swallowed and the loop goes on
PassKeepsGoing(item, step, next_status) ==
  /\ consumed' = Append(consumed, item)
  /\ log' = log \o step.calls
  /\ current_state' = step.state
  /\ path' = IF step.advanced THEN Append(path, step.state) ELSE path
  /\ status' = next_status
  /\ error' = step.error
  /\ UNCHANGED <<traversals, failed_before, call_arguments, schema, module,
                 machine, op, start_state,
                 checked, initial_value, returned>>

\* a mutant of Pass: the machine follows the traversal, its initial state
\* becomes the state the loop is in
PassMovesInitial(item, step, next_status) ==
  /\ consumed' = Append(consumed, item)
  /\ log' = log \o step.calls
  /\ current_state' = step.state
  /\ path' = IF step.advanced THEN Append(path, step.state) ELSE path
  /\ status' = IF step.raised THEN "raised" ELSE next_status
  /\ error' = step.error
  /\ machine' = [machine EXCEPT !.initial = step.state]
  /\ UNCHANGED <<traversals, failed_before, call_arguments, schema, module, op,
                 start_state, checked, initial_value, returned>>

\* one pass through a loop body, given what the body did
Pass(item, step, next_status) ==
  /\ consumed' = Append(consumed, item)
  /\ log' = log \o step.calls
  /\ current_state' = step.state
  /\ path' = IF step.advanced THEN Append(path, step.state) ELSE path
  /\ status' = IF step.raised THEN "raised" ELSE next_status
  /\ error' = step.error
  /\ UNCHANGED <<traversals, failed_before, call_arguments, schema, module,
                 machine, op, start_state,
                 checked, initial_value, returned>>

\* machine.map_action(state, iterable): the generator is created, suspended
\* before its first statement
MapActionCall(state) ==
  /\ Enter("map_action", state, "suspended", <<>>)
  /\ initial_value' = NoneValue
  /\ has_accumulator' = FALSE
  /\ accumulator' = NoValue

\* next() on the generator when the iterable gives another item
MapActionNext(item) ==
  /\ op = "map_action"
  /\ status = "suspended"
  /\ Len(consumed) < MaxItems
  /\ LET Resume(step) ==
           /\ Pass(item, step, "suspended")
           /\ results' = IF step.raised THEN results
                         ELSE Append(results, step.value)
     IN Resume(map_action_step(machine, current_state, item))
  /\ UNCHANGED <<has_accumulator, accumulator>>

\* next() on the generator when the iterable is exhausted
MapActionEnd ==
  /\ op = "map_action"
  /\ status = "suspended"
  /\ status' = "returned"
  /\ returned' = [state |-> NoState, value |-> NoneValue]
  /\ UNCHANGED <<traversals, failed_before, call_arguments, schema, module,
                 machine, op, start_state,
                 current_state, checked, initial_value, consumed, has_accumulator,
                 accumulator, results, error, log, path>>

\* a mutant of ReduceActionCall: the default of initial_value is a
\* sentinel of its own, so a None the caller passes is an initial value
ReduceActionCallSentinel(state, supplied) ==
  /\ Enter("reduce_action", state, "running", supplied)
  /\ initial_value' = IF supplied = <<>> THEN NoneValue ELSE supplied[1]
  /\ has_accumulator' = (supplied # <<>>)
  /\ accumulator' = IF supplied # <<>> THEN supplied[1] ELSE NoValue

\* machine.reduce_action(state, iterable) and machine.reduce_action(state,
\* iterable, initial_value): the parameter defaults to None, and the code
\* passes an initial value on to functools.reduce unless it is None
ReduceActionCall(state, supplied) ==
  /\ Enter("reduce_action", state, "running", supplied)
  /\ LET initial == IF supplied = <<>> THEN NoneValue ELSE supplied[1]
     IN /\ initial_value' = initial
        /\ has_accumulator' = (initial # NoneValue)
        /\ accumulator' = IF initial # NoneValue THEN initial ELSE NoValue

\* a mutant of ReduceActionNext: without an initial value the first item is
\* folded onto None like every other item
ReduceActionNextFoldsFirst(item) ==
  /\ op = "reduce_action"
  /\ status = "running"
  /\ Len(consumed) < MaxItems
  /\ LET step == reduce_function(machine, current_state,
                                 IF has_accumulator THEN accumulator
                                 ELSE NoneValue, item)
     IN /\ Pass(item, step, "running")
        /\ accumulator' = IF step.raised THEN accumulator ELSE step.value
        /\ has_accumulator' = TRUE
  /\ UNCHANGED results

\* functools.reduce takes the next item of the iterable
ReduceActionNext(item) ==
  /\ op = "reduce_action"
  /\ status = "running"
  /\ Len(consumed) < MaxItems
  /\ IF has_accumulator
     THEN LET Folded(step) ==
                /\ Pass(item, step, "running")
                /\ accumulator' = IF step.raised THEN accumulator
                                  ELSE step.value
          IN /\ Folded(reduce_function(machine, current_state, accumulator,
                                       item))
             /\ UNCHANGED has_accumulator
     ELSE /\ consumed' = Append(consumed, item)
          /\ accumulator' = <<item>>
          /\ has_accumulator' = TRUE
          /\ UNCHANGED <<traversals, failed_before, call_arguments, schema,
                         module,
                         machine, op, status,
                         start_state, current_state, checked, initial_value, returned,
                         error, log, path>>
  /\ UNCHANGED results

\* a mutant of ReduceActionEnd: an empty fold without an initial value
\* returns None
ReduceActionEndReturnsNone ==
  /\ op = "reduce_action"
  /\ status = "running"
  /\ status' = "returned"
  /\ returned' = [state |-> NoState,
                  value |-> IF has_accumulator THEN accumulator
                            ELSE NoneValue]
  /\ UNCHANGED <<traversals, failed_before, call_arguments, schema, module,
                 machine, op, start_state, error,
                 current_state, checked, initial_value, consumed, has_accumulator,
                 accumulator, results, log, path>>

\* functools.reduce finds the iterable exhausted
ReduceActionEnd ==
  /\ op = "reduce_action"
  /\ status = "running"
  /\ IF has_accumulator
     THEN /\ status' = "returned"
          /\ returned' = [state |-> NoState, value |-> accumulator]
          /\ UNCHANGED error
     ELSE /\ status' = "raised"
          /\ error' = <<"TypeError",
                        "reduce() of empty iterable with no initial value">>
          /\ UNCHANGED returned
  /\ UNCHANGED <<traversals, failed_before, call_arguments, schema, module,
                 machine, op, start_state,
                 current_state, checked, initial_value, consumed, has_accumulator,
                 accumulator, results, log, path>>

\* machine.foreach_action(state, iterable)
ForeachActionCall(state) ==
  /\ Enter("foreach_action", state, "running", <<>>)
  /\ initial_value' = NoneValue
  /\ has_accumulator' = FALSE
  /\ accumulator' = NoValue

ForeachActionNext(item) ==
  /\ op = "foreach_action"
  /\ status = "running"
  /\ Len(consumed) < MaxItems
  /\ Pass(item, foreach_action_step(machine, current_state, item), "running")
  /\ UNCHANGED <<has_accumulator, accumulator, results>>

ForeachActionEnd ==
  /\ op = "foreach_action"
  /\ status = "running"
  /\ status' = "returned"
  /\ returned' = [state |-> NoState, value |-> NoneValue]
  /\ UNCHANGED <<traversals, failed_before, call_arguments, schema, module,
                 machine, op, start_state,
                 current_state, checked, initial_value, consumed, has_accumulator,
                 accumulator, results, error, log, path>>

Next ==
  \/ \E state \in States(machine), context \in Contexts :
       CallProgress(state, context)
  \/ \E state \in States(machine) : MapActionCall(state)
  \/ \E item \in Items : MapActionNext(item)
  \/ MapActionEnd
  \/ \E state \in States(machine), supplied \in InitialArguments :
       ReduceActionCall(state, supplied)
  \/ \E item \in Items : ReduceActionNext(item)
  \/ ReduceActionEnd
  \/ \E state \in States(machine) : ForeachActionCall(state)
  \/ \E item \in Items : ForeachActionNext(item)
  \/ ForeachActionEnd
  \/ \E state \in States(machine), args \in ArgumentLists :
       CallDoAction(state, args)
  \/ CallGraph

Spec == Init /\ [][Next]_vars

\* the Transition objects of a constructed machine
Transitions(m) == { m.transitions[i].v : i \in 1..Len(m.transitions) }

NextProgress ==
  \/ \E state \in States(machine), context \in Contexts :
       CallProgress(state, context)
  \/ \E transition \in Transitions(machine), context \in Contexts :
       CallCheckCondition(transition, context)

SpecProgress == InitProgress /\ [][NextProgress]_vars

\* Machine(schema) and Machine(schema, module) over the schemas of
\* construction; a machine that was constructed is then used
InitConstruct ==
  /\ schema \in ConstructSchemas
  /\ module \in {None, TestModule}
  /\ machine = Machine(schema, module)
  /\ NoCall

NextConstruct ==
  \/ \E state \in States(machine), args \in ArgumentLists :
       CallDoAction(state, args)
  \/ CallGraph

SpecConstruct == InitConstruct /\ [][NextConstruct]_vars

-----------------------------------------------------------------------------
(* Traversals of one machine by several threads.  The machine is the only
   object the threads share; current_state, the iterable's position and the
   accumulator are locals of each call (current_state a parameter of
   map_action, a nonlocal of reduce_function's enclosing call).  A thread
   may be pre-empted anywhere, so the progress call and the action call of
   one loop body are separate steps. *)

\* what the variables of the single caller keep while the threads run
single ==
  <<op, status, start_state, current_state, checked, initial_value, consumed,
    has_accumulator, accumulator, results, returned, error, log, path,
    call_arguments, failed_before>>

\* thread t calls map_action or reduce_action
ThreadCall(t, name, state, supplied) ==
  /\ machine.error = NoError
  /\ traversals[t].status = "idle"
  /\ name = "map_action" => supplied = <<>>
  /\ LET initial == IF supplied = <<>> THEN NoneValue ELSE supplied[1]
     IN traversals' =
          [traversals EXCEPT ![t] =
             [NotStarted EXCEPT
                !.op = name, !.status = "running", !.supplied = supplied,
                !.start_state = state, !.current_state = state,
                !.has_accumulator = (initial # NoneValue),
                !.accumulator = IF initial # NoneValue THEN initial
                                ELSE NoValue]]
  /\ UNCHANGED <<schema, module, machine, single>>

\* a mutant of ThreadResolve: the current state is kept on the machine
\* (here: in the caller's current_state), one for all the traversals
ThreadResolveShared(t, item) ==
  LET own == traversals[t]
      from == IF current_state = NoState THEN own.current_state
              ELSE current_state
      Resolved(next) ==
        /\ traversals' =
             [traversals EXCEPT ![t] =
                [own EXCEPT
                   !.consumed = Append(@, item),
                   !.log = @ \o next.calls,
                   !.status = IF next.raised THEN "raised" ELSE "resolved",
                   !.error = next.error,
                   !.current_state = IF next.raised THEN from
                                     ELSE next.value]]
        /\ current_state' = IF next.raised THEN from ELSE next.value
  IN /\ own.status = "running"
     /\ Len(own.consumed) < MaxReads
     /\ IF own.op = "reduce_action" /\ ~own.has_accumulator
        THEN /\ traversals' =
                  [traversals EXCEPT ![t] =
                     [own EXCEPT !.consumed = Append(@, item),
                                 !.has_accumulator = TRUE,
                                 !.accumulator = <<item>>]]
             /\ UNCHANGED current_state
        ELSE Resolved(progress(machine, from, item))
     /\ UNCHANGED <<schema, module, machine, op, status, start_state, checked,
                    initial_value, consumed, has_accumulator, accumulator,
                    results, returned, error, log, path, call_arguments,
                    failed_before>>

\* thread t reads the next item and resolves it: current_state =
\* self.progress(current_state, item).  functools.reduce without an
\* initial value takes the first item as the accumulator instead
ThreadResolve(t, item) ==
  LET own == traversals[t]
      Resolved(next) ==
        traversals' =
          [traversals EXCEPT ![t] =
             [own EXCEPT
                !.consumed = Append(@, item),
                !.log = @ \o next.calls,
                !.status = IF next.raised THEN "raised" ELSE "resolved",
                !.error = next.error,
                !.current_state = IF next.raised THEN @ ELSE next.value]]
  IN /\ own.status = "running"
     /\ Len(own.consumed) < MaxReads
     /\ IF own.op = "reduce_action" /\ ~own.has_accumulator
        THEN traversals' =
               [traversals EXCEPT ![t] =
                  [own EXCEPT !.consumed = Append(@, item),
                              !.has_accumulator = TRUE,
                              !.accumulator = <<item>>]]
        ELSE Resolved(progress(machine, own.current_state, item))
     /\ UNCHANGED <<schema, module, machine, single>>

\* thread t invokes the action of the state it resolved:
\* current_state.do_action(item) in map_action,
\* current_state.do_action(current, incoming) in reduce_function
ThreadInvoke(t) ==
  LET own == traversals[t]
      item == own.consumed[Len(own.consumed)]
      Invoked(done) ==
        traversals' =
          [traversals EXCEPT ![t] =
             [own EXCEPT
                !.log = @ \o done.calls,
                !.status = IF done.raised THEN "raised" ELSE "running",
                !.error = done.error,
                !.results = IF own.op = "map_action" /\ ~done.raised
                            THEN Append(@, done.value) ELSE @,
                !.accumulator = IF own.op = "reduce_action" /\ ~done.raised
                                THEN done.value ELSE @]]
  IN /\ own.status = "resolved"
     /\ Invoked(do_action(own.current_state,
                          IF own.op = "map_action" THEN <<<<item>>>>
                          ELSE <<own.accumulator, <<item>>>>))
     /\ UNCHANGED <<schema, module, machine, single>>

\* thread t finds its iterable exhausted
ThreadEnd(t) ==
  LET own == traversals[t]
  IN /\ own.status = "running"
     /\ traversals' =
          [traversals EXCEPT ![t] =
             IF own.op = "map_action"
             THEN [own EXCEPT !.status = "returned", !.returned = NoneValue]
             ELSE IF own.has_accumulator
             THEN [own EXCEPT !.status = "returned",
                              !.returned = own.accumulator]
             ELSE [own EXCEPT
                     !.status = "raised",
                     !.error =
                       <<"TypeError",
                         "reduce() of empty iterable with no initial value">>]]
     /\ UNCHANGED <<schema, module, machine, single>>

\* the machine the threads share: s1 goes to s3 or s2 by the sign of the
\* item; s2, whose action raises, goes on to itself; s3 goes back to s1,
\* and on a positive item to itself as well, which makes progress raise
InterleavedSchemas ==
  { [initial_state |-> "s1",
     states |->
       <<StateEntry("s1", "f",
           <<TransitionEntry("hi", "s3", GreaterThanZero, NoValidation),
             TransitionEntry("lo", "s2", LessThanZero, NoValidation)>>),
         StateEntry("s2", "boom",
           <<TransitionEntry("next", "s2", Tautology, NoValidation)>>),
         StateEntry("s3", "g",
           <<TransitionEntry("b", "s1", Absent, NoValidation),
             TransitionEntry("a", "s3", GreaterThanZero, NoValidation)>>)>>] }

\* what a thread passes to reduce_action after the iterable
ThreadArguments == {<<>>, <<<<"seed">>>>}

InitInterleaved ==
  /\ schema \in InterleavedSchemas
  /\ module = TestModule
  /\ machine = Machine(schema, module)
  /\ NoCall

\* every thread starts from machine.initial, as the callers of the tests do
NextInterleaved ==
  \E t \in Threads :
    \/ ThreadCall(t, "map_action", machine.initial, <<>>)
    \/ \E supplied \in ThreadArguments :
         ThreadCall(t, "reduce_action", machine.initial, supplied)
    \/ \E item \in Items : ThreadResolve(t, item)
    \/ ThreadInvoke(t)
    \/ ThreadEnd(t)

SpecInterleaved == InitInterleaved /\ [][NextInterleaved]_vars

-----------------------------------------------------------------------------
(* What the schema declares, for stating the claims *)

\* the "transitions" mapping the schema declares for a state key
Declared(key) == Lookup(schema.states, key).transitions

\* the value of a declared transition's rule on a context (no rule: true)
RuleOn(definition, context) ==
  RuleCall(IF definition.rule = Absent THEN Tautology ELSE definition.rule,
           context)

HasValidation(definition) == definition.validation.rule # Absent

\* the value of a declared transition's validation rule on a context
ValidationOn(definition, context) ==
  RuleCall(definition.validation.rule, context)

\* positions of the declared transitions of a state whose rule is true
RuleTrue(key, context) ==
  {j \in 1..Len(Declared(key)) : RuleOn(Declared(key)[j].v, context) = "True"}

\* every transition whose rule is true passes its validation, if it has one
ValidationsPass(key, context) ==
  \A j \in RuleTrue(key, context) :
    HasValidation(Declared(key)[j].v) =>
      ValidationOn(Declared(key)[j].v, context) = "True"

\* the first position of a non-empty set of positions
First(positions) == CHOOSE j \in positions : \A h \in positions : j <= h

\* the call log of a progress call that evaluated the rules of the first n
\* declared transitions of a state, in declaration order
ScanLog(key, context, n) ==
  <<Event("progress", key, "", <<<<context>>>>)>> \o
  [j \in 1..n |-> Event("rule", key, Declared(key)[j].k, <<<<context>>>>)]

-----------------------------------------------------------------------------
(* Claims about Machine.progress and Transition.check_condition *)

\* C1: when exactly one outgoing transition of the state has a rule that is
\* true on the context, and it passes its validation if it has one, progress
\* returns that transition's destination, and what it returns is the State
\* object stored in machine.states under the destination key.
C1_ProgressReturnsOnlyMatch ==
  (/\ op = "progress"
   /\ Cardinality(RuleTrue(start_state.key, consumed[1])) = 1
   /\ ValidationsPass(start_state.key, consumed[1]))
  => LET j == First(RuleTrue(start_state.key, consumed[1]))
         destination == Declared(start_state.key)[j].v.destination
     IN /\ status = "returned"
        /\ error = NoError
        /\ returned.state.key = destination
        /\ returned.state = Lookup(machine.states, destination)

\* C1 happens: the only match is the second declared transition, which has a
\* validation that passes, and progress returned
C1_Witness ==
  /\ op = "progress"
  /\ status = "returned"
  /\ RuleTrue(start_state.key, consumed[1]) = {2}
  /\ HasValidation(Declared(start_state.key)[2].v)
  /\ ValidationsPass(start_state.key, consumed[1])

\* C2: when no outgoing transition of the state has a rule that is true on
\* the context (also when the state has no transitions), progress raises
\* MissingTransitionError(state.key, "*") and returns no state.
C2_ProgressMissingTransition ==
  (op = "progress" /\ RuleTrue(start_state.key, consumed[1]) = {})
  => /\ status = "raised"
     /\ error = <<"MissingTransitionError", start_state.key, "*">>
     /\ returned.state = NoState

\* C2 happens: two transitions are declared, one rule raises and one is
\* false, and progress raised
C2_Witness ==
  /\ op = "progress"
  /\ status = "raised"
  /\ Len(Declared(start_state.key)) = 2
  /\ RuleOn(Declared(start_state.key)[1].v, consumed[1]) = "Raise"
  /\ RuleOn(Declared(start_state.key)[2].v, consumed[1]) = "False"

\* C3: when two or more outgoing transitions of the state match the context,
\* progress raises DuplicateTransitionError(state.key, d) where d is the
\* destination key of the first match in declaration order, and the rule of
\* every outgoing transition has been evaluated, in declaration order.
C3_ProgressDuplicateTransition ==
  (/\ op = "progress"
   /\ Cardinality(RuleTrue(start_state.key, consumed[1])) >= 2
   /\ ValidationsPass(start_state.key, consumed[1]))
  => LET j == First(RuleTrue(start_state.key, consumed[1]))
     IN /\ status = "raised"
        /\ error = <<"DuplicateTransitionError", start_state.key,
                     Declared(start_state.key)[j].v.destination>>
        /\ returned.state = NoState
        /\ log = ScanLog(start_state.key, consumed[1],
                         Len(Declared(start_state.key)))

\* C3 happens: the first two declared transitions match; the first goes to
\* s3 (key t2), the second to s2 (key t1), so declaration order is not
\* lexical order
C3_Witness ==
  /\ op = "progress"
  /\ status = "raised"
  /\ {1, 2} \subseteq RuleTrue(start_state.key, consumed[1])
  /\ Declared(start_state.key)[1].v.destination = "s3"
  /\ Declared(start_state.key)[2].v.destination = "s2"
  /\ error[3] = "s3"

\* C4: when a transition's rule is true on the context and its validation
\* rule is false, progress raises the validation error carrying that
\* transition's key and the validation's message, and no later transition
\* is evaluated.
C4_ProgressValidationFailure ==
  LET failing == {j \in RuleTrue(start_state.key, consumed[1]) :
                    /\ HasValidation(Declared(start_state.key)[j].v)
                    /\ ValidationOn(Declared(start_state.key)[j].v,
                                    consumed[1]) = "False"}
  IN (op = "progress" /\ failing # {})
     => /\ status = "raised"
        /\ error = <<"ValidationFailedError",
                     Declared(start_state.key)[First(failing)].k,
                     Declared(start_state.key)[First(failing)].v.validation.message>>
        /\ log = ScanLog(start_state.key, consumed[1], First(failing))

\* the declared transition that a direct check_condition call was made on
CheckedDefinition == Lookup(Declared(start_state.key), checked)

ReplaceThrowing(sch, context) ==
  LET Replaced(entry) ==
        IF RuleOn(entry.v, context) = "Raise"
        THEN [entry EXCEPT !.v.rule = Contradiction]
        ELSE entry
      ReplacedIn(entry) ==
        [entry EXCEPT !.v.transitions =
           [j \in 1..Len(entry.v.transitions) |->
              Replaced(entry.v.transitions[j])]]
  IN [sch EXCEPT !.states =
        [i \in 1..Len(sch.states) |-> ReplacedIn(sch.states[i])]]

\* C6: a rule that raises behaves as a rule that returns false: progress has
\* the outcome (returned state or error) it has on the machine built from
\* the schema in which every rule raising on the context is replaced by the
\* always-false rule, and the error it raises is never the rule's.
C6_ThrowingRuleIsFalseRule ==
  op = "progress"
  => LET other == Machine(ReplaceThrowing(schema, consumed[1]), module)
         outcome == progress(other, Lookup(other.states, start_state.key),
                             consumed[1])
     IN /\ (status = "raised") = outcome.raised
        /\ returned.state = outcome.value
        /\ error = outcome.error
        /\ status = "raised" =>
             error[1] \in {"MissingTransitionError", "DuplicateTransitionError"}

\* C6 happens: progress returned a state although the rule of a declared
\* transition of the origin raises on the context
C6_Witness ==
  /\ op = "progress"
  /\ status = "returned"
  /\ \E j \in 1..Len(Declared(start_state.key)) :
       RuleOn(Declared(start_state.key)[j].v, consumed[1]) = "Raise"

-----------------------------------------------------------------------------
(* Claims about map_action, reduce_action and foreach_action *)

\* the action invocations of the call log, in order
ActionEvents ==
  LET IsAction(event) == event.call = "action"
  IN SelectSeq(log, IsAction)

\* path is start_state followed by the states resolved for the items
\* first..last of consumed, each by progress from the one before
Resolved(first, last) ==
  /\ path[1] = start_state
  /\ Len(path) = last - first + 2
  /\ current_state = path[Len(path)]
  /\ \A i \in first..last :
       LET next == progress(machine, path[i - first + 1], consumed[i])
       IN ~next.raised /\ path[i - first + 2] = next.value

\* C7: while every step succeeds, map_action has yielded one result per item
\* consumed, in input order; with s_i = progress(s_(i-1), item_i), the i-th
\* result is what the action of s_i returns for item_i, and the actions
\* invoked are those of s_1..s_n, never that of the state being left.
C7_MapActionResults ==
  (op = "map_action" /\ status \in {"suspended", "returned"})
  => /\ Len(results) = Len(consumed)
     /\ Resolved(1, Len(consumed))
     /\ \A i \in 1..Len(consumed) :
          /\ path[i + 1].action # None
          /\ results[i] = <<path[i + 1].action, "(", consumed[i], ")">>
     /\ ActionEvents =
          [i \in 1..Len(consumed) |->
             Event("action", path[i + 1].key, "", <<<<consumed[i]>>>>)]

\* C7 happens: a drained map_action over at least two items, where the
\* starting state has an action other than that of the first resolved state
C7_Witness ==
  /\ op = "map_action"
  /\ status = "returned"
  /\ Len(results) >= 2
  /\ start_state.action \notin {None, path[2].action}
  /\ path[3] # path[2]

\* the accumulator of a seeded fold after i items
RECURSIVE Seeded(_)
Seeded(i) ==
  IF i = 0 THEN initial_value
  ELSE <<path[i + 1].action, "(">> \o Seeded(i - 1)
       \o <<",", consumed[i], ")">>

\* C8: reduce_action with an initial value v starts from v; every item,
\* the first included, is resolved by progress from the state before and
\* folded by the action of the resolved state applied to (accumulator,
\* item); the result is the last accumulator, v when there is no item.
C8_ReduceActionSeeded ==
  (/\ op = "reduce_action"
   /\ initial_value # NoneValue
   /\ status \in {"running", "returned"})
  => /\ has_accumulator
     /\ Resolved(1, Len(consumed))
     /\ \A i \in 1..Len(consumed) : path[i + 1].action # None
     /\ accumulator = Seeded(Len(consumed))
     /\ ActionEvents =
          [i \in 1..Len(consumed) |->
             Event("action", path[i + 1].key, "",
                   <<Seeded(i - 1), <<consumed[i]>>>>)]
     /\ status = "returned" => returned.value = Seeded(Len(consumed))

\* C8 happens: a seeded reduce_action returned after at least two items
C8_Witness ==
  /\ op = "reduce_action"
  /\ initial_value # NoneValue
  /\ status = "returned"
  /\ Len(consumed) >= 2

\* the accumulator of an unseeded fold after i >= 1 items
RECURSIVE Unseeded(_)
Unseeded(i) ==
  IF i = 1 THEN <<consumed[1]>>
  ELSE <<path[i].action, "(">> \o Unseeded(i - 1)
       \o <<",", consumed[i], ")">>

\* C9: reduce_action without an initial value makes the first item the
\* accumulator with no progress and no action call; the second item is
\* resolved from the starting state; items 2..n are each resolved and
\* folded; for one item the result is the item and nothing was evaluated.
C9_ReduceActionUnseeded ==
  (/\ op = "reduce_action"
   /\ initial_value = NoneValue
   /\ status \in {"running", "returned"})
  => /\ has_accumulator = (Len(consumed) >= 1)
     /\ Len(consumed) <= 1 =>
          log = <<>> /\ path = <<start_state>> /\ current_state = start_state
     /\ Len(consumed) >= 1 =>
          /\ Resolved(2, Len(consumed))
          /\ \A i \in 2..Len(consumed) : path[i].action # None
          /\ accumulator = Unseeded(Len(consumed))
          /\ ActionEvents =
               [i \in 1..(Len(consumed) - 1) |->
                  Event("action", path[i + 1].key, "",
                        <<Unseeded(i), <<consumed[i + 1]>>>>)]
          /\ status = "returned" =>
               returned.value = Unseeded(Len(consumed))

\* C9 happens: an unseeded reduce_action returned after at least two items,
\* and the first call it made was progress from the starting state on the
\* second item
C9_Witness ==
  /\ op = "reduce_action"
  /\ initial_value = NoneValue
  /\ status = "returned"
  /\ Len(consumed) >= 2
  /\ log[1] = Event("progress", start_state.key, "", <<<<consumed[2]>>>>)

-----------------------------------------------------------------------------
(* Failures inside the traversals *)

Traversals == {"map_action", "reduce_action", "foreach_action"}

\* the calls of the log that are calls of progress
ProgressEvents ==
  LET IsProgress(event) == event.call = "progress"
  IN SelectSeq(log, IsProgress)

\* the arguments the action gets for the last item consumed
LastInvocation ==
  IF op = "reduce_action"
  THEN <<accumulator, <<consumed[Len(consumed)]>>>>
  ELSE <<<<consumed[Len(consumed)]>>>>

\* the last item consumed failed in progress from the state before, or in
\* the action of the state progress resolved, and error is that failure
FailedAtLast ==
  LET item == consumed[Len(consumed)]
      before == IF Len(path) = Len(ProgressEvents) THEN path[Len(path)]
                ELSE path[Len(path) - 1]
      next == progress(machine, before, item)
      done == do_action(next.value, LastInvocation)
  IN /\ ProgressEvents[Len(ProgressEvents)] =
          Event("progress", before.key, "", <<<<item>>>>)
     /\ IF next.raised
        THEN error = next.error /\ current_state = before
        ELSE /\ current_state = next.value
             /\ done.raised
             /\ error = done.error

\* reduce() of an empty iterable without an initial value: the one failure
\* of a traversal that is not the failure of an item
EmptyFold ==
  /\ op = "reduce_action"
  /\ initial_value = NoneValue
  /\ consumed = <<>>
  /\ log = <<>>

\* a traversal has raised exactly when a step failed; it then carries the
\* error of the step of the last item consumed (progress, or the action),
\* every call logged is about an item consumed, map_action has delivered
\* the results of the items before, reduce_action and foreach_action
\* return nothing
FailedTraversal ==
  op \in Traversals
  => /\ (status = "raised") = (error # NoError)
     /\ (status = "raised" /\ ~EmptyFold) =>
          /\ Len(consumed) >= 1
          /\ Len(ProgressEvents) =
               Len(consumed) - (IF op = "reduce_action" /\
                                   initial_value = NoneValue THEN 1 ELSE 0)
          /\ Len(ProgressEvents) >= 1 => FailedAtLast
          /\ op = "map_action" =>
               /\ Len(results) = Len(consumed) - 1
               /\ \A i \in 1..Len(results) :
                    results[i] = <<path[i + 1].action, "(", consumed[i], ")">>
          /\ op # "map_action" => results = <<>>
          /\ returned = [state |-> NoState, value |-> NoValue]

\* a traversal that raised takes no other item
RaisedTraversalIsOver ==
  (op \in Traversals /\ status = "raised")
  => ~(op' = op /\ Len(consumed') > Len(consumed))

\* C11: in map_action, reduce_action and foreach_action, when progress or
\* the action fails for item i the call raises that error at item i, no
\* rule is evaluated and no action invoked for a later item, map_action
\* has already delivered the results of the items before i, and
\* reduce_action and foreach_action return nothing.
C11_FailureStopsTraversal ==
  [](FailedTraversal) /\ [][RaisedTraversalIsOver]_vars

\* C11 happens: map_action raised on its third item, in the action, after
\* delivering two results
C11_Witness ==
  /\ op = "map_action"
  /\ status = "raised"
  /\ Len(results) = 2
  /\ error = <<"RuntimeError", "boom">>

-----------------------------------------------------------------------------
(* State.do_action *)

\* C12: do_action on a state whose action is None raises the missing-action
\* error "No action defined for state <key>", whatever the arguments.
C12_MissingActionError ==
  (op = "do_action" /\ start_state.action = None)
  => /\ status = "raised"
     /\ error = <<"MissingActionError", start_state.key>>

StateValue(key) == <<"State", key>>

\* C14: every action is called with the State it is bound to as its first
\* argument: action(state, a1, ..., an) from do_action, action(state, item)
\* from map_action, action(state, accumulator, item) from reduce_action.
C14_ActionReceivesState ==
  /\ (op = "do_action" /\ start_state.action # None) =>
       ActionEvents =
         <<Event("action", start_state.key, "",
                 <<StateValue(start_state.key)>> \o call_arguments)>>
  /\ op \in {"map_action", "reduce_action"} =>
       \A i \in 1..Len(ActionEvents) :
         /\ Len(ActionEvents[i].arguments) =
              (IF op = "map_action" THEN 2 ELSE 3)
         /\ ActionEvents[i].arguments[1] = StateValue(ActionEvents[i].state)

-----------------------------------------------------------------------------
(* Construction: what the schema declares, position by position *)

IsDeclared(key) == \E i \in 1..Len(schema.states) : schema.states[i].k = key

DeclaredTransitions(i) == schema.states[i].v.transitions

\* the positions construction visits, in its order: <<i, 0>> is the action
\* of the i-th state, <<i, j>> the j-th transition of the i-th state
Positions ==
  UNION { { <<i, j>> : j \in 0..Len(DeclaredTransitions(i)) } :
          i \in 1..Len(schema.states) }

Before(p, q) == p[1] < q[1] \/ (p[1] = q[1] /\ p[2] < q[2])

Earliest(positions) ==
  CHOOSE p \in positions : \A q \in positions : p = q \/ Before(p, q)

DestinationAt(p) == DeclaredTransitions(p[1])[p[2]].v.destination

\* the state names an action
NamesAction(p) == p[2] = 0 /\ schema.states[p[1]].v.action \notin {Absent, None}

\* the state names an action that is no callable of a supplied namespace
ActionUnbound(p) ==
  /\ NamesAction(p)
  /\ module = None \/ ~IsCallable(module, schema.states[p[1]].v.action)

\* the transition goes where an earlier transition of its state goes
RepeatsDestination(p) ==
  /\ p[2] >= 1
  /\ \E h \in 1..(p[2] - 1) :
       DeclaredTransitions(p[1])[h].v.destination = DestinationAt(p)

\* the transition's rule does not parse
RuleMalformed(p) ==
  /\ p[2] >= 1
  /\ DeclaredTransitions(p[1])[p[2]].v.rule = Malformed

\* the transition goes to a key that is not declared
Dangling(p) == p[2] >= 1 /\ ~IsDeclared(DestinationAt(p))

\* the states of the schema have no defect
SoundStates ==
  \A p \in Positions :
    ~(ActionUnbound(p) \/ RepeatsDestination(p) \/ RuleMalformed(p)
      \/ Dangling(p))

\* C15: for a schema whose states are sound, construction raises
\* MissingInitialStateError when there is no initial_state key,
\* InvalidInitialStateError(key) when the key is not a declared state, and
\* otherwise succeeds with machine.initial the State stored under the key.
C15_InitialState ==
  SoundStates
  => /\ schema.initial_state = Absent =>
          machine.error = <<"MissingInitialStateError">>
     /\ (schema.initial_state # Absent /\ ~IsDeclared(schema.initial_state)) =>
          machine.error = <<"InvalidInitialStateError", schema.initial_state>>
     /\ IsDeclared(schema.initial_state) =>
          /\ machine.error = NoError
          /\ machine.initial.key = schema.initial_state
          /\ machine.initial = Lookup(machine.states, schema.initial_state)

\* C15 happens: construction over sound states, with no initial_state key
C15_Witness ==
  /\ SoundStates
  /\ schema.initial_state = Absent
  /\ \E p \in Positions : p[2] = 2
  /\ machine.error # NoError

\* the state names an action that the supplied namespace does not hold as
\* a callable: what the binding of actions stops at
ActionFails(p) ==
  /\ NamesAction(p)
  /\ module # None
  /\ ~IsCallable(module, schema.states[p[1]].v.action)

\* construction meets a defect of its first pass before it gets to check
\* the destination at p
DefectBefore(p) ==
  \E q \in Positions :
    /\ Before(q, p)
    /\ ActionFails(q) \/ RepeatsDestination(q) \/ RuleMalformed(q)

DuplicateDestinationError(p) ==
  <<"DuplicateDestinationError", schema.states[p[1]].k, DestinationAt(p)>>

DanglingPositions == {p \in Positions : Dangling(p)}

MissingDestinationStateError(p) ==
  <<"MissingDestinationStateError", DestinationAt(p)>>

\* C17 as stated: every schema in which a transition goes to a key that is
\* not declared fails construction with the missing-destination-state
\* error naming the first such key in declaration order.
C17_MissingDestinationAlways ==
  DanglingPositions # {}
  => machine.error = MissingDestinationStateError(Earliest(DanglingPositions))

\* C17, amended: a schema in which a transition goes to a key that is not
\* declared is never constructed; the error is the
\* missing-destination-state error naming the first such key in
\* declaration order when the first pass over the states meets no defect
\* (an action that is not callable, a repeated destination, a rule that
\* does not parse).
C17_MissingDestination ==
  DanglingPositions # {}
  => /\ machine.error # NoError
     /\ (\A q \in Positions :
           ~(ActionFails(q) \/ RepeatsDestination(q) \/ RuleMalformed(q)))
        => machine.error =
             MissingDestinationStateError(Earliest(DanglingPositions))

\* C17 happens: the second state has the first of two dangling
\* destinations, after a first state with two transitions
C17_Witness ==
  /\ DanglingPositions = {<<2, 1>>, <<2, 2>>}
  /\ Len(DeclaredTransitions(1)) = 2
  /\ schema.initial_state = "ghost"
  /\ machine.error = <<"MissingDestinationStateError", "ghost2">>

\* C18: a state that names an action either gets the callable of that name
\* from the supplied namespace, or construction raises
\* NonCallableActionError for that state: so for a name that is not a
\* callable of the namespace, a name the namespace does not have, and a
\* name given without a namespace (stated for the first state construction
\* gets to with such a name, no other defect before it).
C18_NamedActionBoundOrRejected ==
  \A p \in Positions :
    (/\ NamesAction(p)
     /\ \A q \in Positions :
          Before(q, p) =>
            ~(ActionUnbound(q) \/ RepeatsDestination(q) \/ RuleMalformed(q)))
    => IF ActionUnbound(p)
       THEN machine.error =
              <<"NonCallableActionError", schema.states[p[1]].k>>
       ELSE machine.error = NoError =>
              Lookup(machine.states, schema.states[p[1]].k).action =
                schema.states[p[1]].v.action

\* the declared transitions, as positions
TransitionPositions == {p \in Positions : p[2] >= 1}

\* C19: in a constructed machine, machine.initial is one of the State
\* objects of machine.states; there is one State per declared state key,
\* each a different object; there is one Transition per declared (origin,
\* transition key), stored under that pair, whose origin is the State
\* object machine.states holds under the origin key and whose destination
\* is the State object it holds under the declared destination key.
C19_GraphIsClosed ==
  machine.error = NoError
  => /\ \E i \in 1..Len(machine.states) :
          machine.states[i].v = machine.initial
     /\ Len(machine.states) = Len(schema.states)
     /\ \A i \in 1..Len(schema.states) :
          /\ machine.states[i].k = schema.states[i].k
          /\ machine.states[i].v.key = schema.states[i].k
          /\ \A h \in 1..Len(schema.states) :
               h # i => machine.states[h].v.id # machine.states[i].v.id
     /\ Len(machine.transitions) = Cardinality(TransitionPositions)
     /\ \A p \in TransitionPositions :
          LET origin_key == schema.states[p[1]].k
              trn_key == DeclaredTransitions(p[1])[p[2]].k
              stored == {j \in 1..Len(machine.transitions) :
                           machine.transitions[j].k = <<origin_key, trn_key>>}
          IN /\ Cardinality(stored) = 1
             /\ \A j \in stored :
                  /\ machine.transitions[j].v.key = trn_key
                  /\ machine.transitions[j].v.origin =
                       Lookup(machine.states, origin_key)
                  /\ machine.transitions[j].v.destination =
                       Lookup(machine.states, DestinationAt(p))

\* C19 happens: a machine was constructed with a transition between two
\* states in each direction and one from a state to itself
C19_Witness ==
  /\ machine.error = NoError
  /\ Len(machine.transitions) = Cardinality(TransitionPositions)
  /\ Cardinality(TransitionPositions) = 4
  /\ machine.initial.key = "s2"

-----------------------------------------------------------------------------
(* The machine across calls *)

\* the machine construction gives for the schema and the namespace
Fresh == Machine(schema, module)

\* the call the variables record ended as it ends on a fresh machine
SameAsFresh ==
  /\ op = "progress" =>
       LET next == progress(Fresh, start_state, consumed[1])
       IN /\ (status = "raised") = next.raised
          /\ error = next.error
          /\ returned.state = next.value
          /\ log = next.calls
  /\ op = "do_action" =>
       LET done == do_action(start_state, call_arguments)
       IN /\ (status = "raised") = done.raised
          /\ error = done.error
          /\ returned.value = done.value
  /\ op = "graph" => returned.value = graph(Fresh)
  /\ op = "map_action" =>
       LET drained == map_action_drain(Fresh, start_state, consumed)
       IN /\ (status = "raised") = drained.raised
          /\ error = drained.error
          /\ results = drained.results
          /\ log = drained.calls

\* C20: whatever calls were made before (progress, do_action, map_action,
\* reduce_action, graph) and however they ended, no step of a call changes
\* machine.states, machine.transitions or machine.initial, and a call ends
\* as the same call ends on a freshly constructed machine.
C20_MachineUnchanged ==
  /\ [](machine = Fresh /\ SameAsFresh)
  /\ [][machine' = machine]_vars

\* C20 happens: progress returned a state on a machine on which an earlier
\* call had raised
C20_Witness ==
  /\ failed_before
  /\ op = "progress"
  /\ status = "returned"
  /\ machine = Fresh

-----------------------------------------------------------------------------
(* Machine.graph *)

\* positions in the order construction visits them
RECURSIVE InOrder(_)
InOrder(positions) ==
  IF positions = {} THEN <<>>
  ELSE <<Earliest(positions)>> \o InOrder(positions \ {Earliest(positions)})

\* the node line of a state key, the edge line of a declared transition
NodeLine(key) == <<"    \"", key, "\" [label=\"", key, "\"]">>

EdgeLine(p) ==
  <<"    \"", schema.states[p[1]].k, "\" -> \"", DestinationAt(p),
    "\" [label=\"", DeclaredTransitions(p[1])[p[2]].k, "\"]">>

\* the lines the schema calls for: its states in declaration order, then
\* its transitions state by state, each state's in declaration order
DeclaredLines ==
  [i \in 1..Len(schema.states) |-> NodeLine(schema.states[i].k)] \o
  [j \in 1..Cardinality(TransitionPositions) |->
     EdgeLine(InOrder(TransitionPositions)[j])]

\* C22: graph() returns "digraph {", then one node line per declared state
\* (the key, labelled with the key) in declaration order, then one edge
\* line per declared transition (origin -> destination, labelled with the
\* transition key) state by state in declaration order, then "}", the
\* lines separated by newlines.
C22_GraphLines ==
  op = "graph"
  => /\ Len(returned.value) >= 2
     /\ Head(returned.value) = "digraph {\n"
     /\ returned.value[Len(returned.value)] = "\n}"
     /\ SubSeq(returned.value, 2, Len(returned.value) - 1) =
          Join(DeclaredLines)

\* C22 happens: graph() was called on a machine of two states and four
\* transitions
C22_Witness ==
  /\ op = "graph"
  /\ status = "returned"
  /\ Cardinality(TransitionPositions) = 4

-----------------------------------------------------------------------------
(* The order of the checks of construction *)

\* the state names a member of the supplied namespace that is not callable
NotCallable(p) ==
  /\ ActionFails(p)
  /\ schema.states[p[1]].v.action \in ModuleMembers(module)

\* the defects of the states construction has an error class for
Structural(p) == NotCallable(p) \/ RepeatsDestination(p) \/ Dangling(p)

StructuralErrors ==
  {"NonCallableActionError", "DuplicateDestinationError",
   "MissingDestinationStateError"}

InitialStateErrors == {"MissingInitialStateError", "InvalidInitialStateError"}

\* no state names an action the namespace lacks, no rule fails to parse:
\* the failures of construction that are neither structural errors nor
\* initial-state errors
NoOtherFailure ==
  \A p \in Positions : ~RuleMalformed(p) /\ (ActionFails(p) => NotCallable(p))

\* C24: a schema with a structural defect in its states (a repeated
\* destination, an undeclared destination, an action that is not callable)
\* fails construction, and never with an initial-state error, whatever its
\* initial state is; it fails with one of the three structural errors when
\* nothing else is wrong with its states.  A schema with a repeated
\* destination anywhere never fails with the missing-destination-state
\* error, and fails with the duplicate-destination error of its first
\* repeated destination when its only defects are repeated and undeclared
\* destinations.
C24_StructuralErrorsFirst ==
  /\ (\E p \in Positions : Structural(p))
     => /\ machine.error # NoError
        /\ machine.error[1] \notin InitialStateErrors
        /\ NoOtherFailure => machine.error[1] \in StructuralErrors
  /\ (\E p \in Positions : RepeatsDestination(p))
     => /\ machine.error # NoError
        /\ machine.error[1] # "MissingDestinationStateError"
        /\ (\A q \in Positions : ~ActionFails(q) /\ ~RuleMalformed(q))
           => machine.error =
                DuplicateDestinationError(
                  Earliest({q \in Positions : RepeatsDestination(q)}))

\* C24 happens: the first state has two undeclared destinations, the second
\* a repeated one, the schema has no initial state, and construction
\* failed with the duplicate-destination error
C24_Witness ==
  /\ \E p \in Positions : Dangling(p) /\ p[1] = 1
  /\ \E p \in Positions : RepeatsDestination(p) /\ p[1] = 2
  /\ schema.initial_state \in {Absent, "ghost"}
  /\ machine.error[1] = "DuplicateDestinationError"

-----------------------------------------------------------------------------
(* Forward references and self-loops *)

\* the transition goes to a state declared after its origin, to its origin
ForwardReference(p) ==
  /\ p[2] >= 1
  /\ \E i \in (p[1] + 1)..Len(schema.states) :
       schema.states[i].k = DestinationAt(p)

SelfLoop(p) == p[2] >= 1 /\ schema.states[p[1]].k = DestinationAt(p)

\* the Transition the machine stores for the declared transition at p
StoredAt(p) ==
  Lookup(machine.transitions,
         <<schema.states[p[1]].k, DeclaredTransitions(p[1])[p[2]].k>>)

\* C25: the missing-destination-state error is raised only for a key that
\* is not declared, wherever the key is declared; a schema with sound
\* states and a declared initial state is constructed; and in a
\* constructed machine a transition to a state declared later, or to its
\* own origin, has as destination the State object machine.states holds
\* under the declared destination key.
C25_ForwardAndSelfResolve ==
  /\ (machine.error # NoError
      /\ machine.error[1] = "MissingDestinationStateError")
     => ~IsDeclared(machine.error[2])
  /\ (SoundStates /\ IsDeclared(schema.initial_state))
     => machine.error = NoError
  /\ machine.error = NoError
     => \A p \in TransitionPositions :
          (ForwardReference(p) \/ SelfLoop(p))
          => /\ StoredAt(p).destination.key = DestinationAt(p)
             /\ StoredAt(p).destination =
                  Lookup(machine.states, DestinationAt(p))
             /\ SelfLoop(p) => StoredAt(p).destination = StoredAt(p).origin

\* C25 happens: a machine was constructed from a schema whose first state
\* has a transition to the second, declared after it, and one to itself
C25_Witness ==
  /\ machine.error = NoError
  /\ \E p \in TransitionPositions : ForwardReference(p) /\ p[1] = 1
  /\ \E p \in TransitionPositions : SelfLoop(p) /\ p[1] = 1
  /\ StoredAt(<<1, 1>>).destination.key = "s2"

-----------------------------------------------------------------------------
(* Transitions declared without a rule *)

\* positions of the declared transitions of a state that have no rule
RuleLess(key) ==
  {j \in 1..Len(Declared(key)) : Declared(key)[j].v.rule = Absent}

\* every rule-less transition passes its validation, if it has one
RuleLessValid(key, context) ==
  \A j \in RuleLess(key) :
    HasValidation(Declared(key)[j].v) =>
      ValidationOn(Declared(key)[j].v, context) = "True"

\* C26: a transition declared without a rule is a match on every context
\* (when it passes its validation, if it has one): progress from an origin
\* that declares one never raises MissingTransitionError, and returns no
\* destination but that transition's; an origin whose only transition has
\* no rule always progresses to its destination; an origin with two
\* rule-less transitions always raises DuplicateTransitionError naming the
\* destination of the first.
C26_RuleLessAlwaysMatches ==
  (/\ op = "progress"
   /\ RuleLess(start_state.key) # {}
   /\ RuleLessValid(start_state.key, consumed[1]))
  => LET key == start_state.key
         j == First(RuleLess(key))
     IN /\ status \in {"returned", "raised"}
        /\ status = "raised" => error[1] = "DuplicateTransitionError"
        /\ status = "returned" =>
             /\ RuleLess(key) = {j}
             /\ returned.state.key = Declared(key)[j].v.destination
        /\ Len(Declared(key)) = 1 =>
             /\ status = "returned"
             /\ returned.state =
                  Lookup(machine.states, Declared(key)[1].v.destination)
        /\ Cardinality(RuleLess(key)) >= 2 =>
             /\ status = "raised"
             /\ RuleLess(key) = 1..Len(Declared(key)) =>
                  error = <<"DuplicateTransitionError", key,
                            Declared(key)[j].v.destination>>

\* C26 happens: the origin declares two transitions, neither with a rule,
\* and progress raised on the context that has no value at all
C26_Witness ==
  /\ op = "progress"
  /\ status = "raised"
  /\ consumed[1] = "empty"
  /\ RuleLess(start_state.key) = {1, 2}

\* C26 happens, the other case: the only transition of the origin has no
\* rule, and progress returned its destination
C26_WitnessSingle ==
  /\ op = "progress"
  /\ status = "returned"
  /\ Len(Declared(start_state.key)) = 1
  /\ RuleLess(start_state.key) = {1}

-----------------------------------------------------------------------------
(* reduce_action over an empty iterable *)

\* C27: reduce_action without an initial value over an iterable that gave
\* no item raises (functools.reduce's TypeError) and returns no value, and
\* no rule was evaluated and no action invoked.
C27_EmptyReduceFails ==
  (op = "reduce_action" /\ initial_value = NoneValue /\ consumed = <<>>)
  => /\ log = <<>>
     /\ path = <<start_state>>
     /\ returned = [state |-> NoState, value |-> NoValue]
     /\ status \in {"running", "raised"}
     /\ status = "raised" =>
          error = <<"TypeError",
                    "reduce() of empty iterable with no initial value">>

\* C27 happens: the iterable of a reduce_action without an initial value
\* was exhausted before it gave an item, and the call raised
C27_Witness ==
  /\ op = "reduce_action"
  /\ initial_value = NoneValue
  /\ consumed = <<>>
  /\ status = "raised"
  /\ Len(get_transitions(machine, start_state)) >= 1

-----------------------------------------------------------------------------
(* Closure of traversal *)

\* some transition of the machine goes from the one State to the other
Connects(from, to) ==
  \E transition \in Transitions(machine) :
    transition.origin = from /\ transition.destination = to

\* C28: in every call of progress, map_action, reduce_action and
\* foreach_action the starting state and every state resolved since are
\* State objects of machine.states, each resolved state is the destination
\* of a transition of the machine whose origin is the state before it, the
\* current state is the last state resolved, and a state progress returns
\* is the one resolved.
C28_TraversalStaysInGraph ==
  (machine.error = NoError /\ op \in Traversals \cup {"progress"})
  => /\ path[1] = start_state
     /\ \A i \in 1..Len(path) : path[i] \in States(machine)
     /\ \A i \in 2..Len(path) : Connects(path[i - 1], path[i])
     /\ op \in Traversals => current_state = path[Len(path)]
     /\ (op = "progress" /\ status = "returned") =>
          /\ returned.state = path[Len(path)]
          /\ Len(path) = 2

\* C28 happens: a traversal resolved three states in a row, not all the
\* same, from a starting state
C28_Witness ==
  /\ op \in {"map_action", "reduce_action"}
  /\ Len(path) = 4
  /\ path[2] # path[3]
  /\ path[4] # path[1]
  /\ current_state = path[4]

-----------------------------------------------------------------------------
(* Laziness of map_action *)

\* C23, the states: a map_action generator nobody has asked for a result
\* has evaluated no rule and invoked no action; at any time it has made one
\* progress call per item read, at most one action call per item read and
\* no result without an action call,
\* and while it is suspended it has read as many items as it gave results.
MapActionReadsOnDemand ==
  op = "map_action"
  => /\ consumed = <<>> =>
          (log = <<>> /\ results = <<>> /\ path = <<start_state>>)
     /\ Len(ProgressEvents) = Len(consumed)
     /\ Len(results) <= Len(ActionEvents)
     /\ Len(ActionEvents) <= Len(consumed)
     /\ status = "suspended" => Len(results) = Len(consumed)
     /\ status = "returned" => Len(results) = Len(consumed)
     /\ status = "raised" => Len(results) = Len(consumed) - 1

\* C23, the steps: a request reads one item, and what it adds to the call
\* log is the progress call from the current state on that item, then
\* rule evaluations of that state on that item, then at most one action
\* call, the last entry, of the state arrived at on that item; a step of
\* the generator that reads no item evaluates and invokes nothing.
MapActionStepIsOneItem ==
  (op = "map_action" /\ op' = "map_action")
  => /\ (consumed' # consumed /\ consumed' # <<>>) =>
          LET item == consumed'[Len(consumed')]
              added == SubSeq(log', Len(log) + 1, Len(log'))
          IN /\ status = "suspended"
             /\ consumed' = Append(consumed, item)
             /\ SubSeq(log', 1, Len(log)) = log
             /\ Len(added) >= 1
             /\ added[1] =
                  Event("progress", current_state.key, "", <<<<item>>>>)
             /\ \A i \in 2..Len(added) :
                  \/ /\ added[i].call = "rule"
                     /\ added[i].state = current_state.key
                     /\ added[i].arguments = <<<<item>>>>
                  \/ /\ i = Len(added)
                     /\ added[i] =
                          Event("action", current_state'.key, "", <<<<item>>>>)
                     /\ current_state' = path'[Len(path')]
                     /\ Len(path') = Len(path) + 1
             /\ Len(results') <= Len(results) + 1
             /\ SubSeq(results', 1, Len(results)) = results
     /\ consumed' = consumed => (log' = log /\ results' = results)

\* C23: map_action is lazy and goes item by item.
C23_MapActionLazy ==
  [](MapActionReadsOnDemand) /\ [][MapActionStepIsOneItem]_vars

\* C23 happens: the consumer asked for two results and stopped; the
\* generator is suspended with two items read, two actions invoked
C23_Witness ==
  /\ op = "map_action"
  /\ status = "suspended"
  /\ Len(consumed) = 2
  /\ Len(ActionEvents) = 2
  /\ Len(log) >= 6

-----------------------------------------------------------------------------
(* reduce_action called with initial_value=None *)

\* C29: reduce_action(state, items, None) is reduce_action(state, items):
\* run to the end over the items read so far the two give the same outcome,
\* and a call that was passed None goes as that run goes - the first item
\* is the accumulator with no progress and no action call, every later
\* item makes one progress call, the first of them on the second item from
\* the starting state, and an iterable without items raises.
C29_NoneIsNoInitialValue ==
  op = "reduce_action"
  => LET alone == reduce_action(machine, start_state, consumed, <<>>)
         passed == reduce_action(machine, start_state, consumed,
                                 <<NoneValue>>)
     IN /\ passed = alone
        /\ call_arguments = <<NoneValue>> =>
             /\ initial_value = NoneValue
             /\ has_accumulator = (consumed # <<>>)
             /\ consumed = <<>> => status \in {"running", "raised"}
             /\ status = "raised" =>
                  (alone.raised /\ error = alone.error)
             /\ status = "returned" =>
                  (~alone.raised /\ returned.value = alone.value)
             /\ (status = "running" /\ consumed # <<>>) =>
                  (~alone.raised /\ accumulator = alone.value)
             /\ log = alone.calls
             /\ current_state = alone.state
             /\ consumed # <<>> =>
                  Len(ProgressEvents) = Len(consumed) - 1
             /\ Len(consumed) >= 2 =>
                  log[1] = Event("progress", start_state.key, "",
                                 <<<<consumed[2]>>>>)

\* C29 happens: reduce_action was passed None as initial value, read three
\* items and returned a value folded twice
C29_Witness ==
  /\ op = "reduce_action"
  /\ call_arguments = <<NoneValue>>
  /\ status = "returned"
  /\ Len(consumed) = 3
  /\ Len(ActionEvents) = 2

-----------------------------------------------------------------------------
(* Interleaved traversals *)

Front(items) == SubSeq(items, 1, Len(items) - 1)

\* the traversal of a thread, run alone over the items it has been through
AloneOver(own, items) ==
  IF own.op = "map_action"
  THEN LET Of(drained) ==
             [raised |-> drained.raised, error |-> drained.error,
              calls |-> drained.calls, state |-> drained.state,
              results |-> drained.results, value |-> NoValue]
       IN Of(map_action_drain(machine, own.start_state, items))
  ELSE LET Of(reduced) ==
             [raised |-> reduced.raised, error |-> reduced.error,
              calls |-> reduced.calls, state |-> reduced.state,
              results |-> <<>>, value |-> reduced.value]
       IN Of(reduce_action(machine, own.start_state, items, own.supplied))

\* a thread between two loop bodies, or done: it is where the run alone
\* over the items it read is
SameAsAlone(own, alone) ==
  /\ own.log = alone.calls
  /\ own.current_state = alone.state
  /\ own.results = alone.results
  /\ IF own.status = "running" /\ ~own.has_accumulator
        /\ own.op = "reduce_action"
     THEN own.consumed = <<>> /\ own.log = <<>>
     ELSE /\ (own.status = "raised") = alone.raised
          /\ own.error = alone.error
          /\ own.op = "reduce_action" /\ own.status # "raised" =>
               own.accumulator = alone.value
          /\ (own.op = "reduce_action" /\ own.status = "returned") =>
               own.returned = alone.value

\* a thread inside a loop body, after its progress call: it is where the
\* run alone over the items before, then progress on the item, leave it
SameAsAloneInside(own, before, next) ==
  /\ ~before.raised
  /\ ~next.raised
  /\ own.current_state = next.value
  /\ own.log = before.calls \o next.calls
  /\ own.results = before.results
  /\ own.error = NoError
  /\ own.op = "reduce_action" => own.accumulator = before.value

Undisturbed(own) ==
  \/ own.status = "idle"
  \/ /\ own.status \in {"running", "returned", "raised"}
     /\ SameAsAlone(own, AloneOver(own, own.consumed))
  \/ /\ own.status = "resolved"
     /\ LET Inside(before) ==
              SameAsAloneInside(
                own, before,
                progress(machine, before.state,
                         own.consumed[Len(own.consumed)]))
        IN Inside(AloneOver(own, Front(own.consumed)))

\* C21: with map_action and reduce_action calls of several threads over
\* one machine interleaved step by step (a thread can be pre-empted
\* between the progress call and the action call of a loop body), every
\* thread has its own current state, and its calls, resolved states,
\* results, accumulator and outcome are at every moment those of the same
\* call run alone over the items it has read; the machine stays as built.
C21_InterleavedTraversalsIndependent ==
  /\ machine = Fresh
  /\ \A t \in Threads : Undisturbed(traversals[t])

\* C21 happens: two threads are both inside a loop body, each past its
\* first item, one mapping and one reducing, at different states
C21_Witness ==
  /\ traversals[1].status = "resolved"
  /\ traversals[2].status = "resolved"
  /\ traversals[1].op = "map_action"
  /\ traversals[2].op = "reduce_action"
  /\ Len(traversals[1].consumed) = 2
  /\ Len(traversals[2].consumed) = 2
  /\ traversals[1].current_state # traversals[2].current_state
  /\ traversals[1].log # <<>> /\ traversals[2].log # <<>>

====
